---------------------------- MODULE Spec2Model ----------------------------
(***************************************************************************)
(* A model of pyrabj's rabj/simple.py: the RabjQueue and RabjQuestion      *)
(* wrappers over a remote rabj server.  The client code is translated from *)
(* src/src/rabj/simple.py; the remote server (reached through              *)
(* rabj.api.RabjCallable, which is not part of simple.py) is modelled from *)
(* the collaborator contract of the specification.                         *)
(*                                                                         *)
(* Every remote call is a synchronous round trip, so one action is one     *)
(* method call, or one iteration of a loop that makes a round trip.        *)
(***************************************************************************)
EXTENDS Integers, Sequences, FiniteSets, TLC

VARIABLES
    server,         \* the questions stored on the server's queue, in server order
    nextid,         \* the id the server gives to the next question it stores
    pc,             \* position of the client in the method it is running
    requests,       \* the remote calls issued by the current (or last) method call
    three_tuples,   \* addall: the argument three_tuples
    pagesize,       \* addall/getall: the argument pagesize
    rest,           \* addall: what the for loop has not consumed yet
    payload,        \* addall: local payload
    added,          \* addall: local added
    state,          \* getall: the argument state
    params,         \* getall: local params (limit, offset)
    questions,      \* getall: local questions
    start,          \* history: the server's questions when the method call started
    late,           \* history: ids stored by other clients after deleteall's read
    srvstatus,      \* the 'status' object the server answers a status GET with
    status_fetched, \* RabjQueue._status_fetched
    status_cache,   \* RabjQueue._status
    phase,          \* history: accesses to the memoized status since construction/reset
    lastop,         \* the method the client runs; history: the one it called last
    result,         \* the value the last method call returned
    queue,          \* RabjQueue.queue, the local snapshot
    question,       \* RabjQuestion.question, the local snapshot
    srvqueue,       \* the queue record as the server holds it
    srvquestion,    \* the question record as the server holds it
    pristine,       \* history: the handles not mutated locally since their last fetch
    ctor            \* the arguments of a handle construction and its outcome

srvvars    == <<server, nextid>>
addvars    == <<three_tuples, rest, payload, added>>
getvars    == <<state, params, questions, start, late>>
statusvars == <<srvstatus, status_fetched, status_cache, phase>>
handlevars == <<queue, question, srvqueue, srvquestion, pristine>>
vars == <<server, nextid, pc, requests, three_tuples, pagesize, rest, payload,
          added, state, params, questions, start, late, srvstatus, status_fetched,
          status_cache, phase, lastop, result, queue, question, srvqueue,
          srvquestion, pristine, ctor>>

\* Python's None, kept apart from every dict (the empty one included).
None == [None |-> TRUE]

\* getall's state argument when absent (None), a string like its other values.
NoState == "None"

\* The empty dict.
EmptyDict == [k \in {} |-> ""]

(***************************************************************************)
(* Bounds of the model.                                                    *)
(***************************************************************************)
MaxTuples   == 3    \* longest three_tuples sequence given to addall
MaxPagesize == 3    \* largest pagesize argument (0 is included)
MaxStored   == 3    \* most questions on the server when a call starts
MaxOther    == 2    \* most questions other clients add during deleteall
MaxCount    == 1    \* largest count in a server status answer
MaxThreads  == 2    \* largest threads argument of a queue handle

\* The default of getall's pagesize argument, which deleteall relies on.
DefaultPagesize == 5000

RECURSIVE Flatten(_)
Flatten(ss) == IF ss = <<>> THEN <<>> ELSE Head(ss) \o Flatten(Tail(ss))

Ceil(n, p) == (n + p - 1) \div p

(***************************************************************************)
(* The server, behind rabj.api.RabjCallable.                               *)
(***************************************************************************)

\* POST <queue>/questions: the server stores the questions in the order sent,
\* gives each the next free id, and answers with the stored records.
ServerStored(nid, qs) ==
    [i \in 1..Len(qs) |-> [id |-> nid + i - 1, state |-> "wanting"] @@ qs[i]]

\* GET <queue>/questions[/<state>]?limit=&offset=: the questions that match the
\* state filter, from position offset (0-based), at most limit of them.
Matching(srv, st) ==
    IF st = NoState THEN srv ELSE SelectSeq(srv, LAMBDA q : q.state = st)

ServerPage(srv, st, limit, offset) ==
    LET m == Matching(srv, st)
        last == IF offset + limit < Len(m) THEN offset + limit ELSE Len(m)
    IN  SubSeq(m, offset + 1, last)

\* DELETE <queue>/questions: the server drops the questions whose ids are sent.
ServerDelete(srv, ids) ==
    SelectSeq(srv, LAMBDA q : \A i \in 1..Len(ids) : ids[i].id # q.id)

(***************************************************************************)
(* RabjQueue.addone and RabjQueue.addall                                   *)
(***************************************************************************)
Assertions   == {"a1", "a2"}
Answerspaces == {"bool"}
Metas        == {EmptyDict, [tag |-> "t"], [assertion |-> "m"]}
Triples      == Assertions \X Answerspaces \X Metas

\* question = {'assertion': ..., 'answerspace': ...}; question.update(meta)
Question(assertion, answerspace, meta) ==
    meta @@ [assertion |-> assertion, answerspace |-> answerspace]

\* addone: one POST carrying the single question; returns result['questions'].
\* Given the server's state, the state after the call and the value returned.
addone(srv, nid, assertion, answerspace, meta) ==
    LET stored == ServerStored(nid, <<Question(assertion, answerspace, meta)>>)
    IN  [server |-> srv \o stored, nextid |-> nid + 1, result |-> stored]

\* One pass of addall's for loop: the next tuple becomes a question appended to
\* payload; a payload of pagesize questions is POSTed and emptied.
addall_loop ==
    /\ pc = "addall"
    /\ rest # <<>>
    /\ LET t == Head(rest)
           p == Append(payload, Question(t[1], t[2], t[3]))
           stored == ServerStored(nextid, p)
       IN  IF Len(p) = pagesize
           THEN /\ requests' = Append(requests, [questions |-> p, response |-> stored])
                /\ server' = server \o stored
                /\ nextid' = nextid + Len(p)
                /\ added' = added \o stored
                /\ payload' = <<>>
           ELSE /\ payload' = p
                /\ UNCHANGED <<requests, server, nextid, added>>
    /\ rest' = Tail(rest)
    /\ UNCHANGED <<pc, three_tuples, pagesize, getvars, statusvars, lastop,
                   result, handlevars, ctor>>

\* addall without the flush after the loop: a trailing partial payload is
\* never sent.
addall_flush_forgotten ==
    /\ pc = "addall"
    /\ rest = <<>>
    /\ result' = added
    /\ pc' = "done"
    /\ UNCHANGED <<requests, srvvars, added, payload, three_tuples, pagesize,
                   rest, getvars, statusvars, lastop, handlevars, ctor>>

\* After the loop: a payload that is not empty is POSTed; added is returned.
addall_flush ==
    /\ pc = "addall"
    /\ rest = <<>>
    /\ LET stored == ServerStored(nextid, payload)
       IN  IF Len(payload) # 0
           THEN /\ requests' = Append(requests, [questions |-> payload, response |-> stored])
                /\ server' = server \o stored
                /\ nextid' = nextid + Len(payload)
                /\ added' = added \o stored
                /\ result' = added \o stored
                /\ payload' = <<>>
           ELSE /\ result' = added
                /\ UNCHANGED <<requests, server, nextid, added, payload>>
    /\ pc' = "done"
    /\ UNCHANGED <<three_tuples, pagesize, rest, getvars, statusvars, lastop,
                   handlevars, ctor>>

(***************************************************************************)
(* RabjQueue.getall, delete and deleteall                                  *)
(***************************************************************************)

\* RabjQuestion(res): a handle whose snapshot is the record given.
RabjQuestion(res) == [question |-> res]

\* RabjQuestion.__getitem__
QuestionItem(q, key) == q.question[key]

\* The round trips a call may make in the model; no call that returns needs
\* as many.
MaxRoundTrips == MaxStored + MaxOther + 3

\* The method lastop is running has reached its return.
Return(value) ==
    /\ pc' = "done"
    /\ result' = value

\* getall's loop with <= for <: it stops on a full page too.
getall_loop_stops_on_full ==
    /\ pc = "getall"
    /\ Len(requests) < MaxRoundTrips
    /\ LET page == ServerPage(server, state, params.limit, params.offset)
           got == questions \o [i \in 1..Len(page) |-> RabjQuestion(page[i])]
       IN  /\ requests' = Append(requests, [limit |-> params.limit,
                                            offset |-> params.offset, page |-> page])
           /\ questions' = got
           /\ IF Len(page) <= pagesize
              THEN /\ IF lastop = "deleteall"
                      THEN pc' = "delete" /\ result' = result
                      ELSE Return(got)
                   /\ params' = params
              ELSE /\ params' = [params EXCEPT !.offset = params.offset + params.limit]
                   /\ UNCHANGED <<pc, result>>
    /\ UNCHANGED <<srvvars, addvars, pagesize, state, start, late, statusvars,
                   lastop, handlevars, ctor>>

\* One pass of getall's while loop: GET the page at params, wrap and append its
\* questions, stop on a page shorter than pagesize, else advance the offset.
\* getall returns the list; deleteall goes on to delete it.
getall_loop ==
    /\ pc = "getall"
    /\ Len(requests) < MaxRoundTrips
    /\ LET page == ServerPage(server, state, params.limit, params.offset)
           got == questions \o [i \in 1..Len(page) |-> RabjQuestion(page[i])]
       IN  /\ requests' = Append(requests, [limit |-> params.limit,
                                            offset |-> params.offset, page |-> page])
           /\ questions' = got
           /\ IF Len(page) < pagesize
              THEN /\ IF lastop = "deleteall"
                      THEN pc' = "delete" /\ result' = result
                      ELSE Return(got)
                   /\ params' = params
              ELSE /\ params' = [params EXCEPT !.offset = params.offset + params.limit]
                   /\ UNCHANGED <<pc, result>>
    /\ UNCHANGED <<srvvars, addvars, pagesize, state, start, late, statusvars,
                   lastop, handlevars, ctor>>

\* delete that names every question the queue holds when the request is made,
\* whatever list it was given.
delete_whole_queue ==
    /\ pc = "delete"
    /\ LET ids == [i \in 1..Len(server) |-> [id |-> server[i].id]]
       IN  /\ requests' = Append(requests, [questions |-> ids])
           /\ server' = ServerDelete(server, ids)
           /\ Return([deleted |-> ids])
    /\ UNCHANGED <<nextid, addvars, pagesize, getvars, statusvars, lastop,
                   handlevars, ctor>>

\* delete(questions): one DELETE carrying {'id': q['id']} for each q of
\* questions in order; returns the server's answer.  Within deleteall the
\* questions are those getall returned.
delete ==
    /\ pc = "delete"
    /\ LET ids == [i \in 1..Len(questions) |-> [id |-> QuestionItem(questions[i], "id")]]
       IN  /\ requests' = Append(requests, [questions |-> ids])
           /\ server' = ServerDelete(server, ids)
           /\ Return([deleted |-> ids])
    /\ UNCHANGED <<nextid, addvars, pagesize, getvars, statusvars, lastop,
                   handlevars, ctor>>

\* Another client of the same queue adds a question while deleteall runs.
other_add ==
    /\ pc \in {"getall", "delete"}
    /\ nextid - Len(start) - 1 < MaxOther
    /\ \E a \in Assertions :
          server' = server \o ServerStored(nextid, <<Question(a, "bool", EmptyDict)>>)
    /\ nextid' = nextid + 1
    /\ late' = IF pc = "delete" THEN late \cup {nextid} ELSE late
    /\ UNCHANGED <<pc, requests, addvars, pagesize, state, params, questions,
                   start, statusvars, lastop, result, handlevars, ctor>>

(***************************************************************************)
(* RabjQueue.status, statusonce, resetstatus and the derived properties    *)
(***************************************************************************)
StatusFields == {"judgments", "complete", "wanting", "started"}

\* The 'status' objects a server may answer with: it reports the counts that
\* are not zero, and leaves the others out.
StatusAnswers == UNION {[d -> 1..MaxCount] : d \in SUBSET StatusFields}

\* GET <queue>/status
StatusGet == [get |-> "status"]

\* dict.get(key, default)
Get(d, key, default) == IF key \in DOMAIN d THEN d[key] ELSE default

\* status() reading the server's field 'incomplete' where it has 'wanting'.
status_misread(qstat) ==
    LET simple_status == [judgments  |-> Get(qstat, "judgments", 0),
                          complete   |-> Get(qstat, "complete", 0),
                          incomplete |-> Get(qstat, "incomplete", 0),
                          started    |-> Get(qstat, "started", 0)]
    IN  [questions |-> simple_status.complete + simple_status.incomplete]
          @@ simple_status

\* status(): the simplified record computed from the 'status' object of the
\* server's answer.
status(qstat) ==
    LET simple_status == [judgments  |-> Get(qstat, "judgments", 0),
                          complete   |-> Get(qstat, "complete", 0),
                          incomplete |-> Get(qstat, "wanting", 0),
                          started    |-> Get(qstat, "started", 0)]
    IN  [questions |-> simple_status.complete + simple_status.incomplete]
          @@ simple_status

\* The derived properties, each status[<its name>] of statusonce()'s value.
Derived == {"questions", "complete", "incomplete", "started", "judgments"}

\* History: an access to the memoized status moves the phase on.
Accessed(ph) ==
    CASE ph = "constructed" -> "first"
      [] ph = "reset"       -> "refetched"
      [] OTHER              -> "later"

\* statusonce() without the test of _status_fetched: every call fetches.
statusonce_refetches ==
    /\ requests' = <<StatusGet>>
    /\ status_cache' = status(srvstatus)
    /\ status_fetched' = TRUE

\* statusonce(): fetch and keep the status unless one is kept already; the
\* value returned is status_cache'.
statusonce ==
    IF ~status_fetched
    THEN /\ requests' = <<StatusGet>>
         /\ status_cache' = status(srvstatus)
         /\ status_fetched' = TRUE
    ELSE /\ requests' = <<>>
         /\ UNCHANGED <<status_cache, status_fetched>>

\* A call of statusonce() by the user of the handle.
statusonce_call ==
    /\ pc = "idle"
    /\ statusonce
    /\ result' = status_cache'
    /\ lastop' = "statusonce"
    /\ phase' = Accessed(phase)
    /\ UNCHANGED <<srvvars, pc, addvars, pagesize, getvars, srvstatus,
                   handlevars, ctor>>

\* A read of the property name: status = self.statusonce(); return status[name]
derived(name) ==
    /\ pc = "idle"
    /\ statusonce
    /\ result' = status_cache'[name]
    /\ lastop' = name
    /\ phase' = Accessed(phase)
    /\ UNCHANGED <<srvvars, pc, addvars, pagesize, getvars, srvstatus,
                   handlevars, ctor>>

\* resetstatus assigning to attributes of other names: the flag and the
\* cached status stay.
resetstatus_misnamed ==
    /\ pc = "idle"
    /\ UNCHANGED <<status_fetched, status_cache>>
    /\ requests' = <<>>
    /\ result' = None
    /\ lastop' = "resetstatus"
    /\ phase' = "reset"
    /\ UNCHANGED <<srvvars, pc, addvars, pagesize, getvars, srvstatus,
                   handlevars, ctor>>

\* resetstatus(): forget the cached status.
resetstatus ==
    /\ pc = "idle"
    /\ status_fetched' = FALSE
    /\ status_cache' = None
    /\ requests' = <<>>
    /\ result' = None
    /\ lastop' = "resetstatus"
    /\ phase' = "reset"
    /\ UNCHANGED <<srvvars, pc, addvars, pagesize, getvars, srvstatus,
                   handlevars, ctor>>

\* A call of status() by the user of the handle.
status_call ==
    /\ pc = "idle"
    /\ requests' = <<StatusGet>>
    /\ result' = status(srvstatus)
    /\ lastop' = "status"
    /\ UNCHANGED <<srvvars, pc, addvars, pagesize, getvars, statusvars,
                   handlevars, ctor>>

\* The queue's counts change on the server (judgments arrive, questions are
\* added or completed): one count of its status answer changes or falls to
\* zero.  The history of the handle's last call is not kept across the change.
server_change ==
    /\ pc = "idle"
    /\ \E f \in StatusFields :
          \/ \E n \in 1..MaxCount :
                /\ Get(srvstatus, f, 0) # n
                /\ srvstatus' = (f :> n) @@ srvstatus
          \/ /\ f \in DOMAIN srvstatus
             /\ srvstatus' = [g \in DOMAIN srvstatus \ {f} |-> srvstatus[g]]
    /\ lastop' = "none"
    /\ result' = None
    /\ requests' = <<>>
    /\ UNCHANGED <<srvvars, pc, addvars, pagesize, getvars, status_fetched,
                   status_cache, phase, handlevars, ctor>>

(***************************************************************************)
(* The dict-like handles: RabjQueue and RabjQuestion field access, update  *)
(* and construction                                                        *)
(***************************************************************************)
Keys   == {"id", "name"}
Values == {"v1", "v2"}

\* The snapshots a handle may hold: any of the keys may be missing.
Snapshots == UNION {[d -> Values] : d \in SUBSET Keys}

\* The records a server may hold: each has the id the server gave it.
ServerRecords == {r \in Snapshots : "id" \in DOMAIN r}

\* PUT <record>: the server stores the fields sent under the id it gave the
\* record, and answers with the record as stored.
ServerPut(rec, body) == [id |-> rec.id] @@ body

\* __setitem__ that saves on every assignment.
queue_setitem_saves(key, value) ==
    /\ pc = "idle"
    /\ requests' = <<[put |-> (key :> value) @@ queue]>>
    /\ srvqueue' = ServerPut(srvqueue, (key :> value) @@ queue)
    /\ queue' = (key :> value) @@ queue
    /\ result' = None
    /\ lastop' = "queue_setitem"
    /\ pristine' = pristine \ {"queue"}
    /\ UNCHANGED <<srvvars, pc, addvars, pagesize, getvars, statusvars,
                   question, srvquestion, ctor>>

\* RabjQueue.__setitem__: self.queue[key] = value
queue_setitem(key, value) ==
    /\ pc = "idle"
    /\ queue' = (key :> value) @@ queue
    /\ requests' = <<>>
    /\ result' = None
    /\ lastop' = "queue_setitem"
    /\ pristine' = pristine \ {"queue"}
    /\ UNCHANGED <<srvvars, pc, addvars, pagesize, getvars, statusvars,
                   question, srvqueue, srvquestion, ctor>>

\* RabjQueue.__delitem__: del self.queue[key] (a KeyError without the key)
queue_delitem(key) ==
    /\ pc = "idle"
    /\ key \in DOMAIN queue
    /\ queue' = [k \in DOMAIN queue \ {key} |-> queue[k]]
    /\ requests' = <<>>
    /\ result' = None
    /\ lastop' = "queue_delitem"
    /\ pristine' = pristine \ {"queue"}
    /\ UNCHANGED <<srvvars, pc, addvars, pagesize, getvars, statusvars,
                   question, srvqueue, srvquestion, ctor>>

\* update that keeps resp, the response's metadata, for result, its body.
queue_update_keeps_resp ==
    /\ pc = "idle"
    /\ requests' = <<[put |-> queue]>>
    /\ srvqueue' = ServerPut(srvqueue, queue)
    /\ queue' = [status |-> "200"]
    /\ result' = [queue |-> queue']
    /\ lastop' = "queue_update"
    /\ UNCHANGED <<srvvars, pc, addvars, pagesize, getvars, statusvars,
                   question, srvquestion, pristine, ctor>>

\* RabjQueue.update: PUT the snapshot, keep the answer as the snapshot,
\* return self.
queue_update ==
    /\ pc = "idle"
    /\ requests' = <<[put |-> queue]>>
    /\ srvqueue' = ServerPut(srvqueue, queue)
    /\ queue' = srvqueue'
    /\ result' = [queue |-> queue']
    /\ lastop' = "queue_update"
    /\ UNCHANGED <<srvvars, pc, addvars, pagesize, getvars, statusvars,
                   question, srvquestion, pristine, ctor>>

\* RabjQueue(server_url=, id=, access_key=): the snapshot is fetched.
queue_fetch ==
    /\ pc = "idle"
    /\ requests' = <<[get |-> "queue"]>>
    /\ queue' = srvqueue
    /\ result' = [queue |-> queue']
    /\ lastop' = "queue_fetch"
    /\ pristine' = pristine \cup {"queue"}
    /\ UNCHANGED <<srvvars, pc, addvars, pagesize, getvars, statusvars,
                   question, srvqueue, srvquestion, ctor>>

\* RabjQuestion.__setitem__
question_setitem(key, value) ==
    /\ pc = "idle"
    /\ question' = (key :> value) @@ question
    /\ requests' = <<>>
    /\ result' = None
    /\ lastop' = "question_setitem"
    /\ pristine' = pristine \ {"question"}
    /\ UNCHANGED <<srvvars, pc, addvars, pagesize, getvars, statusvars,
                   queue, srvqueue, srvquestion, ctor>>

\* RabjQuestion.__delitem__
question_delitem(key) ==
    /\ pc = "idle"
    /\ key \in DOMAIN question
    /\ question' = [k \in DOMAIN question \ {key} |-> question[k]]
    /\ requests' = <<>>
    /\ result' = None
    /\ lastop' = "question_delitem"
    /\ pristine' = pristine \ {"question"}
    /\ UNCHANGED <<srvvars, pc, addvars, pagesize, getvars, statusvars,
                   queue, srvqueue, srvquestion, ctor>>

\* RabjQuestion.update
question_update ==
    /\ pc = "idle"
    /\ requests' = <<[put |-> question]>>
    /\ srvquestion' = ServerPut(srvquestion, question)
    /\ question' = srvquestion'
    /\ result' = [question |-> question']
    /\ lastop' = "question_update"
    /\ UNCHANGED <<srvvars, pc, addvars, pagesize, getvars, statusvars,
                   queue, srvqueue, pristine, ctor>>

\* RabjQuestion(server=, id=): the snapshot is fetched.
question_fetch ==
    /\ pc = "idle"
    /\ requests' = <<[get |-> "question"]>>
    /\ question' = srvquestion
    /\ result' = [question |-> question']
    /\ lastop' = "question_fetch"
    /\ pristine' = pristine \cup {"question"}
    /\ UNCHANGED <<srvvars, pc, addvars, pagesize, getvars, statusvars,
                   queue, srvqueue, srvquestion, ctor>>

\* Python's a ^ b on two booleans.
Xor(a, b) == a # b

\* The record a caller hands to a constructor.
GivenRecord == [id |-> "v2", name |-> "v2"]

\* RabjQueue.__init__(queue, server_url, id, access_key, threads): the
\* assertion on the arguments, a fetch when no record is given, then the
\* fields of the new handle.  In ctor an argument is "None" or "given".
RabjQueue_init ==
    /\ pc = "new"
    /\ ctor.class = "RabjQueue"
    /\ IF Xor(ctor.record # "None",
              ctor.server # "None" /\ ctor.id # "None" /\ ctor.access_key # "None")
       THEN /\ IF ctor.record = "None"
               THEN /\ requests' = <<[get |-> "queue"]>>
                    /\ queue' = srvqueue
               ELSE /\ requests' = <<>>
                    /\ queue' = GivenRecord
            /\ ctor' = [ctor EXCEPT !.outcome = "constructed",
                                    !.threads = IF ctor.threads > 1 THEN 2 ELSE 1]
            /\ status_fetched' = FALSE
            /\ status_cache' = None
       ELSE /\ ctor' = [ctor EXCEPT !.outcome = "AssertionError"]
            /\ UNCHANGED <<requests, queue, status_fetched, status_cache>>
    /\ pc' = "done"
    /\ UNCHANGED <<srvvars, addvars, pagesize, getvars, srvstatus, phase,
                   lastop, result, question, srvqueue, srvquestion, pristine>>

\* RabjQuestion.__init__(question, server, id)
RabjQuestion_init ==
    /\ pc = "new"
    /\ ctor.class = "RabjQuestion"
    /\ IF Xor(ctor.record # "None", ctor.server # "None" /\ ctor.id # "None")
       THEN /\ IF ctor.record = "None"
               THEN /\ requests' = <<[get |-> "question"]>>
                    /\ question' = srvquestion
               ELSE /\ requests' = <<>>
                    /\ question' = GivenRecord
            /\ ctor' = [ctor EXCEPT !.outcome = "constructed"]
       ELSE /\ ctor' = [ctor EXCEPT !.outcome = "AssertionError"]
            /\ UNCHANGED <<requests, question>>
    /\ pc' = "done"
    /\ UNCHANGED <<srvvars, addvars, pagesize, getvars, statusvars, lastop,
                   result, queue, srvqueue, srvquestion, pristine>>

(***************************************************************************)
(* Initial values of the parts a specification does not exercise.          *)
(***************************************************************************)
AddIdle    == three_tuples = <<>> /\ rest = <<>> /\ payload = <<>> /\ added = <<>>
GetIdle    == /\ state = NoState /\ params = [limit |-> 0, offset |-> 0]
              /\ questions = <<>> /\ late = {}
StatusIdle == /\ srvstatus = EmptyDict /\ status_fetched = FALSE
              /\ status_cache = None /\ phase = "constructed"
HandleIdle == /\ queue = EmptyDict /\ question = EmptyDict /\ srvqueue = EmptyDict
              /\ srvquestion = EmptyDict /\ pristine = {}
CallIdle   == lastop = "none" /\ result = None /\ ctor = None

\* The questions a server may hold when a call starts: ids 1..n in server order,
\* each complete or wanting.
StoredQuestion(i, st) ==
    [id |-> i, state |-> st, assertion |-> "a1", answerspace |-> "bool"]

InitialServers ==
    UNION {{[i \in 1..n |-> StoredQuestion(i, f[i])] : f \in [1..n -> {"complete", "wanting"}]}
           : n \in 0..MaxStored}

(***************************************************************************)
(* addall from every input sequence and page size.                         *)
(***************************************************************************)
InitAdd ==
    /\ server \in {s \in InitialServers : Len(s) <= 1 /\ \A i \in 1..Len(s) : s[i].state = "wanting"}
    /\ nextid = Len(server) + 1
    /\ start = server
    /\ three_tuples \in UNION {[1..n -> Triples] : n \in 0..MaxTuples}
    /\ pagesize \in 0..MaxPagesize
    /\ rest = three_tuples
    /\ payload = <<>>
    /\ added = <<>>
    /\ requests = <<>>
    /\ pc = "addall"
    /\ GetIdle /\ StatusIdle /\ HandleIdle /\ CallIdle

NextAdd == addall_loop \/ addall_flush

SpecAdd == InitAdd /\ [][NextAdd]_vars

RECURSIVE addone_each(_, _, _)
\* The calls addone(*t) for t in three_tuples, one after the other: the server
\* after the last call, and the returned lists concatenated.
addone_each(srv, nid, ts) ==
    IF ts = <<>>
    THEN [server |-> srv, nextid |-> nid, result |-> <<>>]
    ELSE LET one == addone(srv, nid, Head(ts)[1], Head(ts)[2], Head(ts)[3])
             more == addone_each(one.server, one.nextid, Tail(ts))
         IN  [more EXCEPT !.result = one.result \o more.result]

InitGet ==
    /\ server \in InitialServers
    /\ nextid = Len(server) + 1
    /\ start = server
    /\ state \in {NoState, "complete", "wanting"}
    /\ pagesize \in 0..MaxPagesize
    /\ params = [limit |-> pagesize, offset |-> 0]
    /\ questions = <<>>
    /\ late = {}
    /\ requests = <<>>
    /\ pc = "getall"
    /\ lastop = "getall"
    /\ result = None
    /\ ctor = None
    /\ AddIdle /\ StatusIdle /\ HandleIdle

NextGet == getall_loop

SpecGet == InitGet /\ [][NextGet]_vars

C3_bounded_round_trips ==
    Len(requests) <= Len(Matching(start, state)) + 1

(***************************************************************************)
(* deleteall while other clients add questions.                            *)
(***************************************************************************)
InitDel ==
    /\ server \in InitialServers
    /\ nextid = Len(server) + 1
    /\ start = server
    /\ state = NoState
    /\ pagesize = DefaultPagesize
    /\ params = [limit |-> pagesize, offset |-> 0]
    /\ questions = <<>>
    /\ late = {}
    /\ requests = <<>>
    /\ pc = "getall"
    /\ lastop = "deleteall"
    /\ result = None
    /\ ctor = None
    /\ AddIdle /\ StatusIdle /\ HandleIdle

NextDel == getall_loop \/ delete \/ other_add

SpecDel == InitDel /\ [][NextDel]_vars

\* The ids a DELETE request carries.
IdsOf(req) == {req.questions[i].id : i \in 1..Len(req.questions)}

\* C9: deleteall is getall() followed by one bulk delete: the delete request
\* carries exactly the ids of the questions the read returned, in that order,
\* so a question another client added after the read completed is not in the
\* request and is still on the server when deleteall returns.
C9_deleteall_read_then_delete ==
    (pc = "done" /\ lastop = "deleteall") =>
        LET k == Len(requests)
            read == Flatten([i \in 1..(k - 1) |-> requests[i].page])
        IN  /\ k >= 2
            /\ requests[k].questions = [i \in 1..Len(read) |-> [id |-> read[i].id]]
            /\ \A id \in late :
                   /\ id \notin IdsOf(requests[k])
                   /\ \E i \in 1..Len(server) : server[i].id = id

\* C9 witness: a deleteall that returned after deleting the two questions it
\* read, while another client added one before the read and one after it.
C9_witness ==
    /\ pc = "done" /\ lastop = "deleteall"
    /\ Len(start) = 1 /\ Len(questions) = 2
    /\ late = {3} /\ Len(server) = 1

(***************************************************************************)
(* The status methods of one queue handle, while the server's counts       *)
(* change.                                                                 *)
(***************************************************************************)
InitStatus ==
    /\ srvstatus \in StatusAnswers
    /\ status_fetched = FALSE
    /\ status_cache = None
    /\ phase = "constructed"
    /\ pc = "idle"
    /\ requests = <<>>
    /\ server = <<>> /\ nextid = 1 /\ start = <<>> /\ pagesize = 0
    /\ AddIdle /\ GetIdle /\ HandleIdle /\ CallIdle

NextStatus ==
    \/ statusonce_call
    \/ \E name \in Derived : derived(name)
    \/ resetstatus
    \/ status_call
    \/ server_change

SpecStatus == InitStatus /\ [][NextStatus]_vars

\* The step is a call of the method op.
Called(op) == lastop' = op

\* C4: among the accesses to questions, complete, incomplete, started and
\* judgments (and statusonce) on one handle, only the first one after
\* construction or after resetstatus issues a remote status fetch; every later
\* one issues no remote call, leaves the cached snapshot as it is and returns
\* its field of that snapshot, whatever the server's counts are by then.
C4_status_memoized ==
    [][\A name \in Derived :
         Called(name) =>
            /\ (requests' # <<>>) <=> (phase \in {"constructed", "reset"})
            /\ phase \notin {"constructed", "reset"} =>
                  /\ status_cache' = status_cache
                  /\ result' = status_cache[name]]_vars

\* C4 witness: a later access that made no remote call and returned the cached
\* count although the server would now report another one.
C4_witness ==
    /\ lastop = "incomplete" /\ phase = "later" /\ requests = <<>>
    /\ result = status_cache.incomplete
    /\ result # Get(srvstatus, "wanting", 0)

\* C5: the first access to the memoized status after resetstatus (statusonce
\* or a derived property) issues a fresh remote status fetch, and what it
\* caches and returns comes from that answer, whatever was cached before.
C5_reset_refetches ==
    [][\A op \in Derived \cup {"statusonce"} :
         (Called(op) /\ phase = "reset") =>
            /\ requests' = <<StatusGet>>
            /\ status_cache' = status(srvstatus)
            /\ result' = IF op = "statusonce" THEN status(srvstatus)
                                              ELSE status(srvstatus)[op]]_vars

\* C5 witness: the first access after a resetstatus, which fetched and
\* returned the server's present count.
C5_witness ==
    /\ phase = "refetched" /\ lastop = "complete"
    /\ requests = <<StatusGet>>
    /\ result = 1 /\ Get(srvstatus, "complete", 0) = 1

\* C10: every call of status() issues a remote status fetch, cached snapshot
\* or not, and returns a record computed from that answer alone: judgments,
\* complete and started are the server's fields of those names, incomplete is
\* the server's field wanting, each 0 when the server leaves it out, and
\* questions = complete + incomplete; the memoized status is left as it was.
C10_status_fresh ==
    [][Called("status") =>
         /\ requests' = <<StatusGet>>
         /\ DOMAIN result' = {"judgments", "complete", "incomplete", "started", "questions"}
         /\ result'.judgments = Get(srvstatus, "judgments", 0)
         /\ result'.complete = Get(srvstatus, "complete", 0)
         /\ result'.started = Get(srvstatus, "started", 0)
         /\ result'.incomplete = Get(srvstatus, "wanting", 0)
         /\ result'.questions = result'.complete + result'.incomplete
         /\ status_fetched' = status_fetched
         /\ status_cache' = status_cache]_vars

\* C10 witness: a status() call on a handle that holds a cached snapshot,
\* which returned the server's newer counts, with a field the server left out
\* reported as 0.
C10_witness ==
    /\ lastop = "status" /\ status_fetched /\ requests = <<StatusGet>>
    /\ "started" \notin DOMAIN srvstatus /\ result.started = 0
    /\ result.incomplete = 1 /\ status_cache.incomplete = 0
    /\ result.questions = 2

(***************************************************************************)
(* A queue handle and a question handle, each constructed by a fetch.      *)
(***************************************************************************)
InitHandle ==
    /\ srvqueue \in ServerRecords
    /\ srvquestion \in ServerRecords
    /\ queue = srvqueue
    /\ question = srvquestion
    /\ pristine = {"queue", "question"}
    /\ pc = "idle"
    /\ requests = <<>>
    /\ server = <<>> /\ nextid = 1 /\ start = <<>> /\ pagesize = 0
    /\ AddIdle /\ GetIdle /\ StatusIdle /\ CallIdle

NextHandle ==
    \/ \E key \in Keys, value \in Values : queue_setitem(key, value)
    \/ \E key \in Keys : queue_delitem(key)
    \/ queue_update
    \/ queue_fetch
    \/ \E key \in Keys, value \in Values : question_setitem(key, value)
    \/ \E key \in Keys : question_delitem(key)
    \/ question_update
    \/ question_fetch

SpecHandle == InitHandle /\ [][NextHandle]_vars

\* The snapshots differ at one key at most.
OneKeyApart(a, b) ==
    \E key \in Keys :
        \A k \in Keys \ {key} :
            /\ k \in DOMAIN a <=> k \in DOMAIN b
            /\ k \in DOMAIN a => a[k] = b[k]

\* C6: setting or deleting a field of a queue or question handle changes that
\* one field of the handle's snapshot, issues no remote call and leaves the
\* server's record as it is; update() sends the whole snapshot, and the
\* snapshot becomes the server's answer as a whole, with no local value kept
\* beside it.
C6_local_until_update ==
    [][/\ lastop' \in {"queue_setitem", "queue_delitem"} =>
            /\ requests' = <<>>
            /\ srvqueue' = srvqueue /\ srvquestion' = srvquestion
            /\ OneKeyApart(queue, queue')
       /\ lastop' \in {"question_setitem", "question_delitem"} =>
            /\ requests' = <<>>
            /\ srvqueue' = srvqueue /\ srvquestion' = srvquestion
            /\ OneKeyApart(question, question')
       /\ lastop' = "queue_update" =>
            /\ requests' = <<[put |-> queue]>>
            /\ queue' = ServerPut(srvqueue, queue)
            /\ queue' = srvqueue'
       /\ lastop' = "question_update" =>
            /\ requests' = <<[put |-> question]>>
            /\ question' = ServerPut(srvquestion, question)
            /\ question' = srvquestion']_vars

\* C6 witness: after local changes that the server has not seen (the id
\* overwritten, the name deleted), and after an update that replaced a
\* snapshot by the server's answer.
C6_witness ==
    /\ lastop = "queue_delitem" /\ "name" \notin DOMAIN queue
    /\ "id" \in DOMAIN queue /\ queue.id # srvqueue.id
    /\ "name" \in DOMAIN srvqueue
    /\ "queue" \notin pristine /\ requests = <<>>
    /\ "question" \notin pristine /\ question = srvquestion

\* C7: update() on a handle that was fetched and not changed since leaves
\* the server's record and the snapshot as they were, so the next fetch
\* returns the snapshot the first one returned.
C7_update_fixpoint ==
    [][/\ (lastop' = "queue_update" /\ "queue" \in pristine) =>
            /\ srvqueue' = srvqueue
            /\ queue' = queue
            /\ queue' = srvqueue'
       /\ (lastop' = "question_update" /\ "question" \in pristine) =>
            /\ srvquestion' = srvquestion
            /\ question' = question
            /\ question' = srvquestion']_vars

\* C7 witness: an update of a queue handle not changed since it was fetched,
\* which sent the snapshot and left it equal to the server's record.
C7_witness ==
    /\ lastop = "queue_update" /\ "queue" \in pristine
    /\ requests = <<[put |-> queue]>>
    /\ queue = srvqueue /\ "name" \in DOMAIN queue
    /\ "question" \notin pristine

(***************************************************************************)
(* Handle construction from every combination of arguments.                *)
(***************************************************************************)
Arg == {"None", "given"}

InitCtor ==
    /\ ctor \in [class : {"RabjQueue"}, record : Arg, server : Arg, id : Arg,
                  access_key : Arg, threads : 0..MaxThreads, outcome : {"pending"}]
              \cup
                 [class : {"RabjQuestion"}, record : Arg, server : Arg, id : Arg,
                  access_key : {"None"}, threads : {1}, outcome : {"pending"}]
    /\ srvqueue = [id |-> "v1", name |-> "v1"]
    /\ srvquestion = [id |-> "v1", name |-> "v1"]
    /\ queue = EmptyDict
    /\ question = EmptyDict
    /\ pristine = {}
    /\ pc = "new"
    /\ requests = <<>>
    /\ lastop = "none"
    /\ result = None
    /\ server = <<>> /\ nextid = 1 /\ start = <<>> /\ pagesize = 0
    /\ AddIdle /\ GetIdle /\ StatusIdle

NextCtor == RabjQueue_init \/ RabjQuestion_init

SpecCtor == InitCtor /\ [][NextCtor]_vars

\* The locating arguments of the handle's class.
Locators == IF ctor.class = "RabjQueue" THEN {"server", "id", "access_key"}
                                        ELSE {"server", "id"}

\* C8: construction succeeds exactly when one complete form is given, the
\* record alone or the complete locating arguments alone; every other
\* combination (both, neither, a record with some locating arguments, an
\* incomplete locating set) fails with an error and no remote call; with a
\* record no remote fetch is made.
C8_exactly_one_form ==
    pc = "done" =>
        LET given == {l \in Locators : ctor[l] # "None"}
            oneform == \/ ctor.record # "None" /\ given = {}
                       \/ ctor.record = "None" /\ given = Locators
        IN  /\ ctor.outcome = "constructed" <=> oneform
            /\ ctor.outcome = "AssertionError" => requests = <<>>
            /\ (ctor.outcome = "constructed" /\ ctor.record # "None") => requests = <<>>

====
